---------------------------- MODULE Spec2Model ----------------------------
(***************************************************************************)
(* State-machine model of sui_trading_bot.py: the in-memory USERS ledger,  *)
(* the ConversationHandler state of every user, context.user_data, and one *)
(* action per handler that a Telegram client can reach.                    *)
(*                                                                         *)
(* Numbers.  Python floats are modelled as pairs <<n, d>>:                 *)
(*   d > 0, gcd(n, d) = 1   the finite value n/d (exact, rounding is not   *)
(*                          modelled),                                     *)
(*   <<1, 0>>, <<-1, 0>>    inf, -inf,                                      *)
(*   <<0, 0>>               float("nan").                                  *)
(* The operators F* below follow IEEE-754 / Python semantics on the three  *)
(* special values (nan propagates, every ordered comparison with nan is    *)
(* false, inf - inf = nan, ...).                                           *)
(*                                                                         *)
(* Dispatch.  run_polling hands the updates to the ConversationHandler one *)
(* at a time, so every handler is one atomic action.  An update no handler *)
(* of the current state matches (a text in SELECTING_ACTION, a button in   *)
(* ENTERING_TOKEN, ...) is dropped and is no step.  A handler that raises  *)
(* leaves the conversation state as it was.  show_balance, show_pnl,       *)
(* copy_trade and wallet_pnl have no action: no keyboard the bot sends has *)
(* a button with their callback data.                                      *)
(*                                                                         *)
(* update, reply and raised record what the last handler run received,     *)
(* sent and raised; current_price records the oracle's answer to the last  *)
(* executed trade.  The properties read the inputs of a step from them.    *)
(*                                                                         *)
(* Specifications.  Spec and SpecDeep: one user, handlers as atomic steps. *)
(* SpecUsers: two users.  SpecReport: the menus and the portfolio view     *)
(* record their figures in report, each pass over the holdings drawing its *)
(* own prices (the per-token lines of the portfolio view are not           *)
(* recorded).  SpecAwait: every handler run is split at its awaits, and    *)
(* inflight holds the runs that are suspended.  SpecOracle: the price      *)
(* oracle called on its own.                                               *)
(***************************************************************************)
EXTENDS Integers, Sequences, FiniteSets, TLC

\* ------------------------------------------------------------------ floats

NaN == <<0, 0>>
Inf == <<1, 0>>
Zero == <<0, 1>>
One == <<1, 1>>

Abs(i) == IF i < 0 THEN -i ELSE i

Sgn(i) == IF i < 0 THEN -1 ELSE IF i > 0 THEN 1 ELSE 0

RECURSIVE GCD(_, _)
GCD(a, b) == IF b = 0 THEN a ELSE GCD(b, a % b)

LCM(a, b) == (a \div GCD(a, b)) * b

\* the finite value n/d (d > 0) in lowest terms
Norm(n, d) == LET g == GCD(Abs(n), d) IN <<n \div g, d \div g>>

IsNaN(x) == x[1] = 0 /\ x[2] = 0
IsInf(x) == x[1] # 0 /\ x[2] = 0
IsFinite(x) == x[2] > 0

FNeg(x) == <<-x[1], x[2]>>

FAdd(x, y) ==
    IF IsNaN(x) \/ IsNaN(y) THEN NaN
    ELSE IF IsInf(x) /\ IsInf(y) THEN (IF x[1] = y[1] THEN x ELSE NaN)
    ELSE IF IsInf(x) THEN x
    ELSE IF IsInf(y) THEN y
    ELSE LET l == LCM(x[2], y[2])
         IN  Norm(x[1] * (l \div x[2]) + y[1] * (l \div y[2]), l)

FSub(x, y) == FAdd(x, FNeg(y))

FMul(x, y) ==
    IF IsNaN(x) \/ IsNaN(y) THEN NaN
    ELSE IF IsInf(x) \/ IsInf(y)
         THEN (IF x[1] = 0 \/ y[1] = 0 THEN NaN ELSE <<Sgn(x[1]) * Sgn(y[1]), 0>>)
    ELSE LET g1 == GCD(Abs(x[1]), y[2])
             g2 == GCD(Abs(y[1]), x[2])
         IN  <<(x[1] \div g1) * (y[1] \div g2), (x[2] \div g2) * (y[2] \div g1)>>

\* x / y for y # 0.0 (Python raises ZeroDivisionError when y == 0.0; the
\* handlers test DivRaises before dividing)
FDiv(x, y) ==
    IF IsNaN(x) \/ IsNaN(y) THEN NaN
    ELSE IF IsInf(y) THEN (IF IsInf(x) THEN NaN ELSE Zero)
    ELSE IF IsInf(x) THEN <<Sgn(x[1]) * Sgn(y[1]), 0>>
    ELSE FMul(x, <<Sgn(y[1]) * y[2], Abs(y[1])>>)

DivRaises(y) == IsFinite(y) /\ y[1] = 0

\* x < y
FLt(x, y) ==
    IF IsNaN(x) \/ IsNaN(y) THEN FALSE
    ELSE IF IsInf(x) \/ IsInf(y)
         THEN (IF IsInf(x) /\ IsInf(y) THEN x[1] < y[1]
               ELSE IF IsInf(x) THEN x[1] < 0 ELSE y[1] > 0)
    ELSE LET l == LCM(x[2], y[2])
         IN  x[1] * (l \div x[2]) < y[1] * (l \div y[2])

\* x == y (false when either side is nan)
FEq(x, y) == ~IsNaN(x) /\ ~IsNaN(y) /\ x = y

FGt(x, y) == FLt(y, x)
FLe(x, y) == FLt(x, y) \/ FEq(x, y)
FGe(x, y) == FLe(y, x)


\* ------------------------------------------------------- program constants

SELECTING_ACTION == 0
ENTERING_TOKEN == 1
ENTERING_AMOUNT == 2
ENTERING_SELL_QUANTITY == 3

TOKENS ==
    [SUI    |-> [name |-> "Sui",    price |-> <<1, 1>>],
     MOON   |-> [name |-> "Moon",   price |-> <<1, 2>>],
     STAR   |-> [name |-> "Star",   price |-> <<3, 4>>],
     ROCKET |-> [name |-> "Rocket", price |-> <<5, 4>>],
     GALAXY |-> [name |-> "Galaxy", price |-> <<9, 10>>]]

REFERRAL_BONUS == <<500, 1>>

\* a dict with no key
EmptyDict == [k \in {} |-> Zero]

\* d[k] = v
DictSet(d, k, v) == [x \in DOMAIN d \cup {k} |-> IF x = k THEN v ELSE d[x]]

\* del d[k]
DictDel(d, k) == [x \in DOMAIN d \ {k} |-> d[x]]

\* ------------------------------------------------------------ model bounds

\* the users that talk to the bot, and those that do under Spec
Users == {1, 2}
OneUser == {1}

\* the values random.uniform(-0.05, 0.05) is sampled at: both ends
Fluctuations == {<<-1, 20>>, <<1, 20>>}

\* executed trades (buys and sells, all users) after which no further trade
\* is explored, per specification: every trade makes new rationals
MaxTrades == 2
MaxTradesDeep == 3
MaxTradesReport == 2
MaxTradesUsers == 2
MaxTradesAwait == 2

\* the texts typed, and the fluctuation the trades draw, under SpecUsers
UsersTokenTexts == {"moon", "SUI"}
UsersNumberTexts == {"100", "1000"}
UsersFluctuations == {<<1, 20>>}

\* the fluctuations a direct call of the oracle is sampled at under
\* SpecOracle: SampleSteps steps on each side of 0, out to both ends
SampleSteps == 10
OracleSamples == {Norm(k, 20 * SampleSteps) : k \in (0 - SampleSteps)..SampleSteps}

\* texts a user types when asked for a token symbol
TokenTexts == {"moon", "STAR", "SUI", "doge"}

\* str.upper() on TokenTexts
Upper(s) == CASE s = "moon" -> "MOON"
              [] s = "doge" -> "DOGE"
              [] OTHER -> s

\* float(text) for the literal texts a user types when asked for a number;
\* every other text ("abc") raises ValueError
FloatLiterals ==
    [x \in {"0", "100", "1000", "nan", "inf"} |->
        CASE x = "0"    -> Zero
          [] x = "100"  -> <<100, 1>>
          [] x = "1000" -> <<1000, 1>>
          [] x = "nan"  -> NaN
          [] x = "inf"  -> Inf]

NumberTexts == DOMAIN FloatLiterals \cup {"abc"}

\* the texts typed, and the fluctuation the trades draw, under SpecReport
\* (its reports draw theirs from Fluctuations)
ReportTokenTexts == {"moon", "STAR"}
ReportNumberTexts == {"100", "nan"}
ReportFluctuations == {<<1, 20>>}

\* ------------------------------------------------------------------- state

VARIABLES
    USERS,        \* user_id -> account dict (the module-level USERS)
    conv,         \* ConversationHandler: user_id -> state, for users in a conversation
    user_data,    \* context.user_data of every user: a dict
    sell_buttons, \* per user: callback data of the "Sell <token>" buttons in the chat
    budget,       \* trades the bound still lets through
    current_price,\* what get_token_price returned to the last executed trade
    update,       \* the update the last handler run received
    reply,        \* the last message that handler run sent
    raised,       \* the exception that escaped it, or "none"
    report,       \* the figures in that message, when it shows any
    inflight      \* the handler runs that are suspended at an await

vars == <<USERS, conv, user_data, sell_buttons, budget, current_price, update, reply,
          raised, report, inflight>>

\* an incoming update: type is "command", "message" or "callback"; s is the
\* command, text or callback data.  A message text that is the repr() of a
\* float is s = "repr" with v that float (float(repr(x)) == x).  Under
\* SpecOracle, type "call" records a call of get_token_price: s is the symbol
\* and v the fluctuation random.uniform returned.
Update(u, type, s, v) == [user |-> u, type |-> type, s |-> s, v |-> v]

Reply(u, text) == [to |-> u, text |-> text]

\* the figures of a message: total_value, total_pnl and the pnl percentage
\* of format_main_menu and format_balance_message
Report(kind, total_value, total_pnl, pnl_percent) ==
    [kind |-> kind, total_value |-> total_value, total_pnl |-> total_pnl,
     pnl_percent |-> pnl_percent]

\* a message without figures
NoReport == Report("none", Zero, Zero, Zero)

\* -------------------------------------------------------------- price oracle

get_token_price(symbol, fluctuation) ==
    FMul(TOKENS[symbol].price, FAdd(One, fluctuation))

\* ------------------------------------------------------------------ ledger

SeedAccount ==
    [holdings |-> EmptyDict,
     sui_balance |-> <<1000, 1>>,
     referral_bonus |-> REFERRAL_BONUS]

\* a first access that seeds the account whether or not it is there
get_user_data_always_seeds(users, user_id) == DictSet(users, user_id, SeedAccount)

get_user_data(users, user_id) ==
    IF user_id \in DOMAIN users THEN users ELSE DictSet(users, user_id, SeedAccount)

ResetAccount ==
    [holdings |-> EmptyDict,
     sui_balance |-> <<1000, 1>>]

\* a reset that restores the balance and keeps the holdings
ResetUserKeepsHoldings(users, user_id) ==
    IF user_id \in DOMAIN users
    THEN [users EXCEPT ![user_id] =
            [holdings |-> users[user_id].holdings, sui_balance |-> <<1000, 1>>]]
    ELSE DictSet(users, user_id, ResetAccount)

\* a reset that resets every account
ResetEveryUser(users, user_id) == [w \in DOMAIN users \cup {user_id} |-> ResetAccount]

\* lines 541-544: USERS[user_id] = {...}
ResetUser(users, user_id) == DictSet(users, user_id, ResetAccount)

InitWith(max_trades) ==
    /\ USERS = EmptyDict
    /\ conv = EmptyDict
    /\ user_data = [u \in Users |-> EmptyDict]
    /\ sell_buttons = [u \in Users |-> {}]
    /\ budget = max_trades
    /\ current_price = Zero
    /\ update = Update(1, "none", "", Zero)
    /\ reply = Reply(1, "")
    /\ raised = "none"
    /\ report = NoReport
    /\ inflight = {}

Init == InitWith(MaxTrades)
InitDeep == InitWith(MaxTradesDeep)
InitReport == InitWith(MaxTradesReport)
InitUsers == InitWith(MaxTradesUsers)
InitAwait == InitWith(MaxTradesAwait)

\* --------------------------------------------------------------- dispatch

\* ConversationHandler: the user is in a conversation, in this state
InState(u, state) == u \in DOMAIN conv /\ conv[u] = state

\* the handler returned new_state
Goto(u, new_state) == conv' = DictSet(conv, u, new_state)

\* format_main_menu: get_user_data, then the welcome text, which reads
\* user_data['sui_balance'] and user_data['referral_bonus']
MenuRaises(account) == "referral_bonus" \notin DOMAIN account

\* /start: the entry point, and the fallback of every state
start(u) ==
    LET users1 == get_user_data(USERS, u) IN
    /\ update' = Update(u, "command", "/start", Zero)
    /\ USERS' = users1
    /\ IF MenuRaises(users1[u])
       THEN /\ raised' = "KeyError"
            /\ reply' = Reply(u, "")
            /\ UNCHANGED conv
       ELSE /\ raised' = "none"
            /\ reply' = Reply(u, "main_menu")
            /\ Goto(u, SELECTING_ACTION)
    /\ UNCHANGED <<user_data, sell_buttons, budget, current_price>>

\* view_tokens, show_tutorials, show_tutorial, invite_friends: buttons of the
\* menus that show a text and change nothing
DisplayButtons == {"view_tokens", "tutorials", "tut_view_tokens", "invite_friends"}

display(u, data) ==
    /\ InState(u, SELECTING_ACTION)
    /\ update' = Update(u, "callback", data, Zero)
    /\ raised' = "none"
    /\ reply' = Reply(u, data)
    /\ Goto(u, SELECTING_ACTION)
    /\ UNCHANGED <<USERS, user_data, sell_buttons, budget, current_price>>

show_portfolio(u) ==
    /\ InState(u, SELECTING_ACTION)
    /\ update' = Update(u, "callback", "portfolio", Zero)
    /\ IF u \notin DOMAIN USERS
       THEN /\ raised' = "KeyError"
            /\ reply' = Reply(u, "")
            /\ UNCHANGED conv
       ELSE /\ raised' = "none"
            /\ reply' = Reply(u, "portfolio")
            /\ Goto(u, SELECTING_ACTION)
    /\ UNCHANGED <<USERS, user_data, sell_buttons, budget, current_price>>

back_to_main(u) ==
    LET users1 == get_user_data(USERS, u) IN
    /\ InState(u, SELECTING_ACTION)
    /\ update' = Update(u, "callback", "back_to_main", Zero)
    /\ USERS' = users1
    /\ IF MenuRaises(users1[u])
       THEN /\ raised' = "KeyError"
            /\ reply' = Reply(u, "")
            /\ UNCHANGED conv
       ELSE /\ raised' = "none"
            /\ reply' = Reply(u, "main_menu")
            /\ Goto(u, SELECTING_ACTION)
    /\ UNCHANGED <<user_data, sell_buttons, budget, current_price>>

reset_portfolio(u) ==
    /\ InState(u, SELECTING_ACTION)
    /\ update' = Update(u, "callback", "reset", Zero)
    /\ USERS' = ResetUser(USERS, u)
    /\ raised' = "none"
    /\ reply' = Reply(u, "portfolio_reset")
    /\ Goto(u, SELECTING_ACTION)
    /\ UNCHANGED <<user_data, sell_buttons, budget, current_price>>

\* ---------------------------------------------------------------- buy flow

start_buy(u) ==
    /\ InState(u, SELECTING_ACTION)
    /\ update' = Update(u, "callback", "buy", Zero)
    /\ raised' = "none"
    /\ reply' = Reply(u, "enter_token_symbol")
    /\ Goto(u, ENTERING_TOKEN)
    /\ UNCHANGED <<USERS, user_data, sell_buttons, budget, current_price>>

\* a token test that forgets the settlement token
InvalidTokenAllowsSUI(token) == token \notin DOMAIN TOKENS

\* line 353
InvalidToken(token) == token \notin DOMAIN TOKENS \/ token = "SUI"

process_buy_token(u, text) ==
    LET token == Upper(text) IN
    /\ InState(u, ENTERING_TOKEN)
    /\ update' = Update(u, "message", text, Zero)
    /\ raised' = "none"
    /\ IF InvalidToken(token)
       THEN /\ reply' = Reply(u, "invalid_token_symbol")
            /\ Goto(u, ENTERING_TOKEN)
            /\ UNCHANGED user_data
       ELSE /\ user_data' = [user_data EXCEPT ![u] = DictSet(@, "buy_token", token)]
            /\ reply' = Reply(u, "enter_amount")
            /\ Goto(u, ENTERING_AMOUNT)
    /\ UNCHANGED <<USERS, sell_buttons, budget, current_price>>

\* float(update.message.text)
ParseRaises(upd) == upd.s # "repr" /\ upd.s \notin DOMAIN FloatLiterals

ParseFloat(upd) == IF upd.s = "repr" THEN upd.v ELSE FloatLiterals[upd.s]

\* lines 386-390: the holding the buy works on
HoldingOrNew(holdings, token) ==
    IF token \in DOMAIN holdings THEN holdings[token]
    ELSE [quantity |-> Zero, avg_price |-> Zero]

\* lines 396-398
NewAvgPrice(old_quantity, old_avg_price, quantity, price) ==
    FDiv(FAdd(FMul(old_quantity, old_avg_price), FMul(quantity, price)),
         FAdd(old_quantity, quantity))

\* a buy that charges a 1% fee on top of the amount
DebitBalanceWithFee(sui_balance, amount) ==
    FSub(sui_balance, FMul(amount, <<101, 100>>))

\* line 404
DebitBalance(sui_balance, amount) == FSub(sui_balance, amount)

\* lines 382-404: the account after buying `amount` SUI of token at price
BuyAccount(account, token, amount, price) ==
    LET quantity == FDiv(amount, price)
        old == HoldingOrNew(account.holdings, token)
        new == [quantity |-> FAdd(old.quantity, quantity),
                avg_price |-> NewAvgPrice(old.quantity, old.avg_price,
                                          quantity, price)]
    IN  [account EXCEPT !.holdings = DictSet(@, token, new),
                        !.sui_balance = DebitBalance(@, amount)]

\* the balance test with the comparison turned round
InsufficientBalanceReversed(amount, sui_balance) == FLt(amount, sui_balance)

\* line 376
InsufficientBalance(amount, sui_balance) == FGt(amount, sui_balance)

process_buy_amount(u, text, fluctuation) ==
    LET upd == Update(u, "message", text, Zero)
        amount == ParseFloat(upd)
        token == user_data[u]["buy_token"]
        account == USERS[u]
        price == get_token_price(token, fluctuation)
        quantity == FDiv(amount, price)
        old == HoldingOrNew(account.holdings, token)
    IN
    /\ InState(u, ENTERING_AMOUNT)
    /\ update' = upd
    /\ UNCHANGED <<user_data, sell_buttons>>
    /\ IF ParseRaises(upd)
       THEN \* except ValueError
            /\ raised' = "none"
            /\ reply' = Reply(u, "invalid_amount")
            /\ Goto(u, ENTERING_AMOUNT)
            /\ UNCHANGED <<USERS, budget, current_price>>
       ELSE IF "buy_token" \notin DOMAIN user_data[u] \/ u \notin DOMAIN USERS
       THEN /\ raised' = "KeyError"
            /\ reply' = Reply(u, "")
            /\ UNCHANGED <<USERS, conv, budget, current_price>>
       ELSE IF FLe(amount, Zero)
       THEN \* raise ValueError("Amount must be positive")
            /\ raised' = "none"
            /\ reply' = Reply(u, "invalid_amount")
            /\ Goto(u, ENTERING_AMOUNT)
            /\ UNCHANGED <<USERS, budget, current_price>>
       ELSE IF InsufficientBalance(amount, account.sui_balance)
       THEN /\ raised' = "none"
            /\ reply' = Reply(u, "insufficient_balance")
            /\ Goto(u, ENTERING_AMOUNT)
            /\ UNCHANGED <<USERS, budget, current_price>>
       ELSE IF DivRaises(FAdd(old.quantity, quantity))
       THEN \* the division of line 397, after the insert of lines 386-390
            /\ raised' = "ZeroDivisionError"
            /\ reply' = Reply(u, "")
            /\ USERS' = [USERS EXCEPT ![u].holdings = DictSet(@, token, old)]
            /\ UNCHANGED <<conv, budget, current_price>>
       ELSE /\ budget > 0
            /\ budget' = budget - 1
            /\ current_price' = price
            /\ USERS' = [USERS EXCEPT ![u] = BuyAccount(account, token, amount, price)]
            /\ raised' = "none"
            /\ reply' = Reply(u, "bought")
            /\ Goto(u, SELECTING_ACTION)


\* --------------------------------------------------------------- sell flow

\* f"sell_{token}"
SellButton(token) ==
    CASE token = "MOON"   -> "sell_MOON"
      [] token = "STAR"   -> "sell_STAR"
      [] token = "ROCKET" -> "sell_ROCKET"
      [] token = "GALAXY" -> "sell_GALAXY"
      [] token = "SUI"    -> "sell_SUI"

\* query.data.split("_")[1]
SplitToken(data) == CHOOSE t \in DOMAIN TOKENS : SellButton(t) = data

\* The keyboards the bot sent stay in the chat (a message is edited only when
\* one of its own buttons is pressed, and /start always brings a new menu), so
\* a user can keep every "Sell <token>" button start_sell ever showed.
start_sell(u) ==
    /\ InState(u, SELECTING_ACTION)
    /\ update' = Update(u, "callback", "sell", Zero)
    /\ UNCHANGED <<USERS, user_data, budget, current_price>>
    /\ IF u \notin DOMAIN USERS
       THEN /\ raised' = "KeyError"
            /\ reply' = Reply(u, "")
            /\ UNCHANGED <<conv, sell_buttons>>
       ELSE IF DOMAIN USERS[u].holdings = {}
       THEN /\ raised' = "none"
            /\ reply' = Reply(u, "no_tokens_to_sell")
            /\ Goto(u, SELECTING_ACTION)
            /\ UNCHANGED sell_buttons
       ELSE /\ raised' = "none"
            /\ reply' = Reply(u, "select_token_to_sell")
            /\ sell_buttons' = [sell_buttons EXCEPT
                   ![u] = @ \cup {SellButton(t) : t \in DOMAIN USERS[u].holdings}]
            /\ Goto(u, ENTERING_SELL_QUANTITY)

\* a press of a "Sell <token>" button that start_sell put in the chat
process_sell_token(u, data) ==
    /\ InState(u, ENTERING_SELL_QUANTITY)
    /\ data \in sell_buttons[u]
    /\ update' = Update(u, "callback", data, Zero)
    /\ user_data' = [user_data EXCEPT ![u] = DictSet(@, "sell_token", SplitToken(data))]
    /\ raised' = "none"
    /\ reply' = Reply(u, "enter_quantity")
    /\ Goto(u, ENTERING_SELL_QUANTITY)
    /\ UNCHANGED <<USERS, sell_buttons, budget, current_price>>

\* the holdings test with the comparison turned round
InsufficientHoldingsReversed(holdings, token, quantity) ==
    token \notin DOMAIN holdings \/ FLt(quantity, holdings[token].quantity)

\* line 488
InsufficientHoldings(holdings, token, quantity) ==
    token \notin DOMAIN holdings \/ FGt(quantity, holdings[token].quantity)

\* a sell that recomputes avg_price as the old cost over the quantity left
SellHoldingsRecomputesAvg(holdings, token, quantity) ==
    LET left == FSub(holdings[token].quantity, quantity) IN
    IF FEq(left, Zero) THEN DictDel(holdings, token)
    ELSE [holdings EXCEPT
            ![token].quantity = left,
            ![token].avg_price =
                FDiv(FMul(holdings[token].quantity, holdings[token].avg_price), left)]

\* lines 497-500
SellHoldings(holdings, token, quantity) ==
    LET left == FSub(holdings[token].quantity, quantity) IN
    IF FEq(left, Zero) THEN DictDel(holdings, token)
    ELSE [holdings EXCEPT ![token].quantity = left]

\* a sell that credits the quantity, not quantity * price
CreditBalanceNoPrice(sui_balance, quantity, price) == FAdd(sui_balance, quantity)

\* lines 495 and 502
CreditBalance(sui_balance, quantity, price) == FAdd(sui_balance, FMul(quantity, price))

\* lines 494-502: the account after selling quantity of token at price
SellAccount(account, token, quantity, price) ==
    [account EXCEPT !.holdings = SellHoldings(@, token, quantity),
                    !.sui_balance = CreditBalance(@, quantity, price)]

\* the quantities whose repr() the user types: all of the selected holding,
\* and half of it
ReprQuantities(u) ==
    IF /\ u \in DOMAIN USERS
       /\ "sell_token" \in DOMAIN user_data[u]
       /\ user_data[u]["sell_token"] \in DOMAIN USERS[u].holdings
       /\ IsFinite(USERS[u].holdings[user_data[u]["sell_token"]].quantity)
    THEN LET q == USERS[u].holdings[user_data[u]["sell_token"]].quantity
         IN  {q, FMul(q, <<1, 2>>)}
    ELSE {}

process_sell_quantity(u, text, v, fluctuation) ==
    LET upd == Update(u, "message", text, v)
        quantity == ParseFloat(upd)
        token == user_data[u]["sell_token"]
        account == USERS[u]
        price == get_token_price(token, fluctuation)
    IN
    /\ InState(u, ENTERING_SELL_QUANTITY)
    /\ update' = upd
    /\ UNCHANGED <<user_data, sell_buttons>>
    /\ IF ParseRaises(upd)
       THEN \* except ValueError
            /\ raised' = "none"
            /\ reply' = Reply(u, "invalid_quantity_number")
            /\ Goto(u, ENTERING_SELL_QUANTITY)
            /\ UNCHANGED <<USERS, budget, current_price>>
       ELSE IF "sell_token" \notin DOMAIN user_data[u] \/ u \notin DOMAIN USERS
       THEN /\ raised' = "KeyError"
            /\ reply' = Reply(u, "")
            /\ UNCHANGED <<USERS, conv, budget, current_price>>
       ELSE IF FLe(quantity, Zero)
       THEN \* raise ValueError("Quantity must be positive")
            /\ raised' = "none"
            /\ reply' = Reply(u, "invalid_quantity_number")
            /\ Goto(u, ENTERING_SELL_QUANTITY)
            /\ UNCHANGED <<USERS, budget, current_price>>
       ELSE IF InsufficientHoldings(account.holdings, token, quantity)
       THEN /\ raised' = "none"
            /\ reply' = Reply(u, "invalid_quantity")
            /\ Goto(u, ENTERING_SELL_QUANTITY)
            /\ UNCHANGED <<USERS, budget, current_price>>
       ELSE /\ budget > 0
            /\ budget' = budget - 1
            /\ current_price' = price
            /\ USERS' = [USERS EXCEPT ![u] = SellAccount(account, token, quantity, price)]
            /\ raised' = "none"
            /\ reply' = Reply(u, "sold")
            /\ Goto(u, SELECTING_ACTION)

\* ----------------------------------------------------------------- reports

\* the tokens a report of user_id walks over
HeldTokens(users, user_id) ==
    IF user_id \in DOMAIN users THEN DOMAIN users[user_id].holdings ELSE {}

\* one pass over the holdings: the fluctuation get_token_price draws for
\* each token it is asked about in that pass
Passes(tokens) == [tokens -> Fluctuations]

\* total = 0.0; for ...: total += term[t]
RECURSIVE FSum(_)
FSum(term) ==
    IF DOMAIN term = {} THEN Zero
    ELSE LET t == CHOOSE x \in DOMAIN term : TRUE
         IN  FAdd(FSum([x \in DOMAIN term \ {t} |-> term[x]]), term[t])

get_portfolio_value(users, user_id, pass) ==
    IF user_id \notin DOMAIN users THEN Zero
    ELSE LET holdings == users[user_id].holdings
         IN  FSum([t \in DOMAIN holdings |->
                      FMul(holdings[t].quantity, get_token_price(t, pass[t]))])

get_unrealized_pnl(users, user_id, pass) ==
    IF user_id \notin DOMAIN users THEN Zero
    ELSE LET holdings == users[user_id].holdings
         IN  FSum([t \in DOMAIN holdings |->
                      FMul(FSub(get_token_price(t, pass[t]), holdings[t].avg_price),
                           holdings[t].quantity)])

\* a percentage that divides whatever the total value is
PnlPercentUnguarded(total_pnl, total_value) ==
    FMul(FDiv(total_pnl, total_value), <<100, 1>>)

\* lines 167 and 186: (total_pnl / total_value * 100) if total_value > 0 else 0
PnlPercent(total_pnl, total_value) ==
    IF FGt(total_value, Zero)
    THEN FMul(FDiv(total_pnl, total_value), <<100, 1>>)
    ELSE Zero

\* the figures of the main menu: one pass for the value, a second for the pnl
format_main_menu(users, user_id, value_pass, pnl_pass) ==
    LET total_value == get_portfolio_value(users, user_id, value_pass)
        total_pnl == get_unrealized_pnl(users, user_id, pnl_pass)
    IN  Report("main_menu", total_value, total_pnl, PnlPercent(total_pnl, total_value))

\* the figures of the balance summary that show_portfolio starts with
format_balance_message(users, user_id, value_pass, pnl_pass) ==
    LET total_value == get_portfolio_value(users, user_id, value_pass)
        total_pnl == get_unrealized_pnl(users, user_id, pnl_pass)
    IN  Report("balance", total_value, total_pnl, PnlPercent(total_pnl, total_value))

\* ----------------------------------------------------------- specification

\* a handler run taken as one step, from its dispatch to its return, whose
\* message is recorded without its figures
Handled(run) ==
    /\ run
    /\ report' = NoReport
    /\ UNCHANGED inflight

\* the handler runs of one user
Step(u) ==
    \/ Handled(start(u))
    \/ \E data \in DisplayButtons : Handled(display(u, data))
    \/ Handled(show_portfolio(u))
    \/ Handled(back_to_main(u))
    \/ Handled(reset_portfolio(u))
    \/ Handled(start_buy(u))
    \/ \E text \in TokenTexts : Handled(process_buy_token(u, text))
    \/ \E text \in NumberTexts, f \in Fluctuations :
           Handled(process_buy_amount(u, text, f))
    \/ Handled(start_sell(u))
    \/ \E data \in sell_buttons[u] : Handled(process_sell_token(u, data))
    \/ \E text \in NumberTexts, f \in Fluctuations :
           Handled(process_sell_quantity(u, text, Zero, f))
    \/ \E v \in ReprQuantities(u), f \in Fluctuations :
           Handled(process_sell_quantity(u, "repr", v, f))

\* Application.run_polling handles one update at a time: a handler runs to
\* its return before the next update is dispatched
Next == \E u \in OneUser : Step(u)

\* one user, MaxTrades trades
Spec == Init /\ [][Next]_vars

\* one user, MaxTradesDeep trades
SpecDeep == InitDeep /\ [][Next]_vars

\* a handler run taken as one step whose message shows these figures (none
\* when the run raised before it sent the message)
Reported(run, figures) ==
    /\ run
    /\ report' = IF raised' = "none" THEN figures ELSE NoReport
    /\ UNCHANGED inflight

\* the handler runs of one user, with the figures of the menus and of the
\* portfolio view: every pass over the holdings draws its own prices
StepReport(u) ==
    \/ \E value_pass, pnl_pass \in Passes(HeldTokens(USERS, u)) :
           Reported(start(u),
                    format_main_menu(get_user_data(USERS, u), u, value_pass, pnl_pass))
    \/ \E value_pass, pnl_pass \in Passes(HeldTokens(USERS, u)) :
           Reported(back_to_main(u),
                    format_main_menu(get_user_data(USERS, u), u, value_pass, pnl_pass))
    \/ \E value_pass, pnl_pass \in Passes(HeldTokens(USERS, u)) :
           Reported(show_portfolio(u),
                    format_balance_message(USERS, u, value_pass, pnl_pass))
    \/ \E data \in DisplayButtons : Handled(display(u, data))
    \/ Handled(reset_portfolio(u))
    \/ Handled(start_buy(u))
    \/ \E text \in ReportTokenTexts : Handled(process_buy_token(u, text))
    \/ \E text \in ReportNumberTexts, f \in ReportFluctuations :
           Handled(process_buy_amount(u, text, f))
    \/ Handled(start_sell(u))
    \/ \E data \in sell_buttons[u] : Handled(process_sell_token(u, data))
    \/ \E text \in ReportNumberTexts, f \in ReportFluctuations :
           Handled(process_sell_quantity(u, text, Zero, f))
    \/ \E v \in ReprQuantities(u), f \in ReportFluctuations :
           Handled(process_sell_quantity(u, "repr", v, f))

NextReport == \E u \in OneUser : StepReport(u)

\* one user, MaxTradesReport trades, the figures of every report
SpecReport == InitReport /\ [][NextReport]_vars


\* the handler runs of one of several users
StepUsers(u) ==
    \/ Handled(start(u))
    \/ \E data \in DisplayButtons : Handled(display(u, data))
    \/ Handled(show_portfolio(u))
    \/ Handled(back_to_main(u))
    \/ Handled(reset_portfolio(u))
    \/ Handled(start_buy(u))
    \/ \E text \in UsersTokenTexts : Handled(process_buy_token(u, text))
    \/ \E text \in UsersNumberTexts, f \in UsersFluctuations :
           Handled(process_buy_amount(u, text, f))
    \/ Handled(start_sell(u))
    \/ \E data \in sell_buttons[u] : Handled(process_sell_token(u, data))
    \/ \E text \in UsersNumberTexts, f \in UsersFluctuations :
           Handled(process_sell_quantity(u, text, Zero, f))
    \/ \E v \in ReprQuantities(u), f \in UsersFluctuations :
           Handled(process_sell_quantity(u, "repr", v, f))

\* the updates of all users go through the one ConversationHandler
NextUsers == \E u \in Users : StepUsers(u)

\* two users, MaxTradesUsers trades between them
SpecUsers == InitUsers /\ [][NextUsers]_vars

\* ------------------------------------------------------ handlers and awaits

\* A handler is a coroutine: it runs without interruption from one await to
\* the next.  A callback handler first awaits query.answer(); every handler
\* reads and writes USERS, user_data and its reply text between that await
\* and the await that sends its message, and returns its state after it.
\* A run suspended at an await: pc is "answer" (before its body) or "reply"
\* (after it); data is the callback data or message text of its update.
Run(u, data, pc) == [user |-> u, data |-> data, pc |-> pc]

\* an Application built with concurrent_updates(True)
DispatchesConcurrently(runs) == TRUE

\* lines 631 and 669: Application.builder().token(token).build() sets no
\* concurrent_updates, so run_polling awaits the handler of one update to
\* its return before it takes the next update from the queue
Dispatches(runs) == runs = {}

\* the callback data the handlers of the user's conversation state match
\* among the buttons in the chat
CallbackData(u) ==
    IF InState(u, SELECTING_ACTION)
    THEN DisplayButtons \cup {"portfolio", "back_to_main", "reset", "buy", "sell"}
    ELSE IF InState(u, ENTERING_SELL_QUANTITY) THEN sell_buttons[u]
    ELSE {}

\* a callback query is dispatched: its handler runs up to await query.answer()
answer(u, data) ==
    /\ Dispatches(inflight)
    /\ data \in CallbackData(u)
    /\ inflight' = inflight \cup {Run(u, data, "answer")}
    /\ UNCHANGED <<USERS, conv, user_data, sell_buttons, budget, current_price,
                   update, reply, raised, report>>

\* the handler of a callback query runs on from query.answer() to the await
\* that sends its message
Answered(u, data, run) ==
    /\ Run(u, data, "answer") \in inflight
    /\ run
    /\ report' = NoReport
    /\ inflight' = (inflight \ {Run(u, data, "answer")}) \cup {Run(u, data, "reply")}

\* a command or a text message is dispatched: its handler runs up to the
\* await that sends its message
Received(run) ==
    /\ Dispatches(inflight)
    /\ run
    /\ report' = NoReport
    /\ inflight' = inflight \cup {Run(update'.user, update'.s, "reply")}

\* the message is sent and the handler returns (or its exception is logged)
handler_returns(r) ==
    /\ r \in inflight
    /\ r.pc = "reply"
    /\ inflight' = inflight \ {r}
    /\ UNCHANGED <<USERS, conv, user_data, sell_buttons, budget, current_price,
                   update, reply, raised, report>>

\* the handler runs of one user, await by await.  The ConversationHandler
\* stores the state a handler returns when it returns; the handlers store it
\* with their body here, and no update is dispatched in between.
StepAwait(u) ==
    \/ Received(start(u))
    \/ \E data \in CallbackData(u) : answer(u, data)
    \/ \E data \in DisplayButtons : Answered(u, data, display(u, data))
    \/ Answered(u, "portfolio", show_portfolio(u))
    \/ Answered(u, "back_to_main", back_to_main(u))
    \/ Answered(u, "reset", reset_portfolio(u))
    \/ Answered(u, "buy", start_buy(u))
    \/ \E text \in UsersTokenTexts : Received(process_buy_token(u, text))
    \/ \E text \in UsersNumberTexts, f \in UsersFluctuations :
           Received(process_buy_amount(u, text, f))
    \/ Answered(u, "sell", start_sell(u))
    \/ \E data \in sell_buttons[u] : Answered(u, data, process_sell_token(u, data))
    \/ \E text \in UsersNumberTexts, f \in UsersFluctuations :
           Received(process_sell_quantity(u, text, Zero, f))
    \/ \E v \in ReprQuantities(u), f \in UsersFluctuations :
           Received(process_sell_quantity(u, "repr", v, f))
    \/ \E r \in inflight : r.user = u /\ handler_returns(r)

NextAwait == \E u \in OneUser : StepAwait(u)

\* one user, MaxTradesAwait trades, every handler run await by await
SpecAwait == InitAwait /\ [][NextAwait]_vars

\* get_token_price(symbol), called on its own
price_call(symbol, fluctuation) ==
    /\ update' = Update(1, "call", symbol, fluctuation)
    /\ current_price' = get_token_price(symbol, fluctuation)
    /\ UNCHANGED <<USERS, conv, user_data, sell_buttons, budget, reply, raised,
                   report, inflight>>

NextOracle ==
    \E symbol \in DOMAIN TOKENS, fluctuation \in OracleSamples :
        price_call(symbol, fluctuation)

\* the price oracle alone: every token, every sample
SpecOracle == Init /\ [][NextOracle]_vars


\* ------------------------------------------------------------------ claims

\* the step is a run of process_buy_amount / process_sell_quantity: a text
\* message of a user whose conversation is in that state
IsBuyAmountStep ==
    update'.type = "message" /\ InState(update'.user, ENTERING_AMOUNT)

IsSellQuantityStep ==
    update'.type = "message" /\ InState(update'.user, ENTERING_SELL_QUANTITY)

\* the conversation of u is in this state after the step
InStateAfter(u, state) == u \in DOMAIN conv' /\ conv'[u] = state

\* C1: every executed buy of sui_amount leaves sui_balance at the float
\* difference balance_before - sui_amount, whatever price the oracle
\* returned: no fee, no price-dependent term (nan when the amount is nan).
C1_BuyDebitsExactlyAmount ==
    [][reply'.text = "bought" =>
          LET u == update'.user IN
          USERS'[u].sui_balance = FSub(USERS[u].sui_balance, ParseFloat(update'))]_vars

\* a buy of 100 SUI at a price that is not 1 has left 900 SUI
C1_Witness ==
    /\ reply.text = "bought"
    /\ update.s = "100"
    /\ current_price # One
    /\ USERS[update.user].sui_balance = <<900, 1>>

\* C2: an executed buy of sui_amount at price p, with q = sui_amount / p, sets
\* the holding to quantity q and avg_price p when the user held none of the
\* token, and otherwise to quantity old_qty + q and avg_price
\* (old_qty * old_avg + q * p) / (old_qty + q).
C2_BuySetsHolding ==
    [][reply'.text = "bought" =>
          LET u == update'.user
              t == user_data[u]["buy_token"]
              p == current_price'
              q == FDiv(ParseFloat(update'), p)
              h == USERS[u].holdings
              new == USERS'[u].holdings[t]
          IN  IF t \notin DOMAIN h
              THEN new.quantity = q /\ new.avg_price = p
              ELSE /\ new.quantity = FAdd(h[t].quantity, q)
                   /\ new.avg_price =
                          FDiv(FAdd(FMul(h[t].quantity, h[t].avg_price), FMul(q, p)),
                               FAdd(h[t].quantity, q))
      ]_vars

\* C3: a buy whose amount is greater than the balance is answered with
\* "Insufficient SUI balance", changes no account, and leaves the user in
\* ENTERING_AMOUNT.
C3_InsufficientBalanceRejected ==
    [][(/\ IsBuyAmountStep
        /\ ~ParseRaises(update')
        /\ FGt(ParseFloat(update'), USERS[update'.user].sui_balance))
       => /\ reply'.text = "insufficient_balance"
          /\ raised' = "none"
          /\ USERS' = USERS
          /\ InStateAfter(update'.user, ENTERING_AMOUNT)
      ]_vars

\* 1000 SUI were asked for with 900 SUI and a holding on the account
C3_Witness ==
    /\ reply.text = "insufficient_balance"
    /\ update.s = "1000"
    /\ USERS[update.user].sui_balance = <<900, 1>>
    /\ DOMAIN USERS[update.user].holdings # {}

\* C4: a sell, with a token selected, whose quantity is greater than the held
\* quantity of that token, or whose token the user does not hold, changes no
\* account and leaves the user in ENTERING_SELL_QUANTITY; when the quantity is
\* positive it is answered "Invalid quantity. Please enter a valid amount:"
\* (a quantity <= 0 gets the invalid-number answer first).
C4_InsufficientHoldingsRejected ==
    [][(/\ IsSellQuantityStep
        /\ ~ParseRaises(update')
        /\ "sell_token" \in DOMAIN user_data[update'.user]
        /\ LET h == USERS[update'.user].holdings
               t == user_data[update'.user]["sell_token"]
           IN  t \notin DOMAIN h \/ FGt(ParseFloat(update'), h[t].quantity))
       => /\ USERS' = USERS
          /\ raised' = "none"
          /\ InStateAfter(update'.user, ENTERING_SELL_QUANTITY)
          /\ (FGt(ParseFloat(update'), Zero) => reply'.text = "invalid_quantity")
      ]_vars

\* more than the held quantity was asked of a held token
C4_WitnessTooMuch ==
    /\ reply.text = "invalid_quantity"
    /\ "sell_token" \in DOMAIN user_data[update.user]
    /\ user_data[update.user]["sell_token"] \in DOMAIN USERS[update.user].holdings
    /\ FGt(ParseFloat(update),
           USERS[update.user].holdings[user_data[update.user]["sell_token"]].quantity)

\* C5: an executed sell of quantity q at price p takes q off the holding's
\* quantity (the holding is deleted when the difference is 0) and adds q * p
\* to sui_balance.
C5_SellReducesAndCredits ==
    [][reply'.text = "sold" =>
          LET u == update'.user
              t == user_data[u]["sell_token"]
              q == ParseFloat(update')
              left == FSub(USERS[u].holdings[t].quantity, q)
          IN  /\ USERS'[u].sui_balance =
                     FAdd(USERS[u].sui_balance, FMul(q, current_price'))
              /\ IF t \in DOMAIN USERS'[u].holdings
                 THEN USERS'[u].holdings[t].quantity = left
                 ELSE left = Zero
      ]_vars

\* half of a holding was sold at a price that is not 1
C5_Witness ==
    /\ reply.text = "sold"
    /\ update.s = "repr"
    /\ current_price # One
    /\ user_data[update.user]["sell_token"] \in DOMAIN USERS[update.user].holdings
    /\ USERS[update.user].holdings[user_data[update.user]["sell_token"]].quantity = update.v

\* C6: after an executed sell whose quantity equals the held quantity of the
\* token, the token is no key of the user's holdings.
C6_FullSellRemovesHolding ==
    [][reply'.text = "sold" =>
          LET u == update'.user
              t == user_data[u]["sell_token"]
          IN  FEq(ParseFloat(update'), USERS[u].holdings[t].quantity)
                  => t \notin DOMAIN USERS'[u].holdings
      ]_vars

\* C7: no step but an executed buy changes the avg_price of a holding that is
\* there before and after it; in particular a sell that leaves part of the
\* holding leaves its avg_price as it was.
C7_SellKeepsAvgPrice ==
    [][reply'.text # "bought" =>
          \A u \in DOMAIN USERS \cap DOMAIN USERS' :
              \A t \in DOMAIN USERS[u].holdings \cap DOMAIN USERS'[u].holdings :
                  USERS'[u].holdings[t].avg_price = USERS[u].holdings[t].avg_price
      ]_vars

\* part of a holding was sold at a price other than its avg_price
C7_Witness ==
    /\ reply.text = "sold"
    /\ user_data[update.user]["sell_token"] \in DOMAIN USERS[update.user].holdings
    /\ IsFinite(USERS[update.user].holdings[user_data[update.user]["sell_token"]].avg_price)
    /\ USERS[update.user].holdings[user_data[update.user]["sell_token"]].avg_price
           # current_price

\* C8: right after reset_portfolio the user's sui_balance is 1000 and the
\* user's holdings are empty, whatever was traded before.
C8_ResetRestoresBalanceAndHoldings ==
    (update.type = "callback" /\ update.s = "reset") =>
        /\ USERS[update.user].sui_balance = <<1000, 1>>
        /\ DOMAIN USERS[update.user].holdings = {}

\* a reset after as many trades as the bound allows
C8_Witness ==
    /\ update.type = "callback" /\ update.s = "reset"
    /\ budget = 0

\* C9: right after reset_portfolio the account record equals, field for
\* field, the record get_user_data makes for a user it has not seen.
C9_ResetEqualsSeed ==
    (update.type = "callback" /\ update.s = "reset") =>
        USERS[update.user] = get_user_data(EmptyDict, update.user)[update.user]

\* C10: every user's sui_balance is >= 0.
C10_BalanceNonNegative ==
    \A u \in DOMAIN USERS : FGe(USERS[u].sui_balance, Zero)

\* C11: every holding in any user's holdings has quantity > 0.
C11_HoldingQuantityPositive ==
    \A u \in DOMAIN USERS :
        \A t \in DOMAIN USERS[u].holdings :
            FGt(USERS[u].holdings[t].quantity, Zero)

\* C12: a token text that names SUI or no token of TOKENS is answered
\* "Invalid token symbol" in ENTERING_TOKEN: the user is asked for a symbol
\* again (never for an amount), no token is selected and no account changes;
\* and the keys of every holdings dict are tokens of TOKENS other than SUI.
C12_InvalidTokenRejected ==
    /\ [][(/\ update'.type = "message"
            /\ InState(update'.user, ENTERING_TOKEN)
            /\ Upper(update'.s) \notin DOMAIN TOKENS \ {"SUI"})
           => /\ reply'.text = "invalid_token_symbol"
              /\ raised' = "none"
              /\ USERS' = USERS
              /\ user_data' = user_data
              /\ InStateAfter(update'.user, ENTERING_TOKEN)
          ]_vars
    /\ [](\A u \in DOMAIN USERS :
              DOMAIN USERS[u].holdings \subseteq DOMAIN TOKENS \ {"SUI"})

\* "SUI" was refused as the token of a buy by a user who holds a token
C12_Witness ==
    /\ reply.text = "invalid_token_symbol"
    /\ update.s = "SUI"
    /\ DOMAIN USERS[update.user].holdings # {}

\* C13: a handler that calls get_user_data (/start, back_to_main) makes the
\* account with sui_balance 1000 and no holdings when the user has none, and
\* leaves an account that is there as it is; so does every later run: no
\* second first access resets it.
C13_FirstAccessSeedsOnce ==
    [][(update'.s \in {"/start", "back_to_main"} /\ update'.type # "message")
       => LET u == update'.user IN
          /\ u \in DOMAIN USERS'
          /\ IF u \in DOMAIN USERS
             THEN USERS'[u] = USERS[u]
             ELSE /\ USERS'[u].sui_balance = <<1000, 1>>
                  /\ DOMAIN USERS'[u].holdings = {}
          /\ \A w \in DOMAIN USERS \ {u} : w \in DOMAIN USERS' /\ USERS'[w] = USERS[w]
      ]_vars

\* /start came again from a user whose account holds a token
C13_Witness ==
    /\ update.type = "command" /\ update.s = "/start"
    /\ DOMAIN USERS[update.user].holdings # {}
    /\ USERS[update.user].sui_balance # <<1000, 1>>

\* the step runs the body of a handler, up to the await that sends its message
IsBodyStep == \E r \in inflight' \ inflight : r.pc = "reply"

\* C14: the handler runs of one user are serialized: at most one run of a
\* user is under way at any time; an account changes only in the body of
\* that run; and an executed buy or sell passed its balance or holdings test
\* in the very state it changes, with no step of another run in between.
C14_RunsSerialized ==
    /\ [](\A u \in Users : Cardinality({r \in inflight : r.user = u}) <= 1)
    /\ [][/\ USERS' # USERS => IsBodyStep
          /\ (IsBodyStep /\ reply'.text = "bought") =>
                 ~FGt(ParseFloat(update'), USERS[update'.user].sui_balance)
          /\ (IsBodyStep /\ reply'.text = "sold") =>
                 LET h == USERS[update'.user].holdings
                     t == user_data[update'.user]["sell_token"]
                 IN  t \in DOMAIN h /\ ~FGt(ParseFloat(update'), h[t].quantity)
         ]_vars

\* the second trade of a user ran its body and is suspended at the await
\* that sends its message
C14_Witness ==
    /\ budget = 0
    /\ reply.text \in {"bought", "sold"}
    /\ \E r \in inflight : r.user = update.user /\ r.pc = "reply"

\* C15: a handler run for one user leaves the account of every other user
\* as it was.
C15_OtherAccountsUnchanged ==
    [][\A w \in DOMAIN USERS \ {update'.user} :
           w \in DOMAIN USERS' /\ USERS'[w] = USERS[w]]_vars

\* a user reset their account while the other user held a token
C15_Witness ==
    /\ update.type = "callback" /\ update.s = "reset"
    /\ budget < MaxTradesUsers
    /\ \E w \in DOMAIN USERS \ {update.user} : DOMAIN USERS[w].holdings # {}

\* the cost of the holdings: the sum of quantity * avg_price
CostBasis(holdings) ==
    FSum([t \in DOMAIN holdings |-> FMul(holdings[t].quantity, holdings[t].avg_price)])

\* C16: in every report the pnl percentage is 0 when the total value is 0,
\* and is total_pnl / total_value * 100 when the total value is > 0; a user
\* without holdings gets a total value of 0 and so a percentage of 0.
C16_PnlPercentGuarded ==
    report.kind # "none" =>
        /\ (FEq(report.total_value, Zero) => report.pnl_percent = Zero)
        /\ (FGt(report.total_value, Zero) =>
               report.pnl_percent =
                   FMul(FDiv(report.total_pnl, report.total_value), <<100, 1>>))
        /\ (DOMAIN USERS[update.user].holdings = {} =>
               report.total_value = Zero /\ report.pnl_percent = Zero)

\* the main menu of a user who bought, then sold all, shows a value of 0
C16_Witness ==
    /\ report.kind = "main_menu"
    /\ report.total_value = Zero
    /\ report.pnl_percent = Zero
    /\ budget = 0
    /\ DOMAIN USERS[update.user].holdings = {}

\* C17: a call of the oracle for SUI returns the reference price of SUI,
\* whatever fluctuation was drawn.
C17_SettlementPriceExact ==
    (update.type = "call" /\ update.s = "SUI") => current_price = TOKENS["SUI"].price

\* C18: the total pnl of a report is its total value minus the cost of the
\* holdings (both figures come from the same prices).
C18_ReportFromOneSnapshot ==
    report.kind # "none" =>
        report.total_pnl =
            FSub(report.total_value, CostBasis(USERS[update.user].holdings))

\* C19: the avg_price of every holding lies within 5% of the base price of
\* its token: 0.95 * base <= avg_price <= 1.05 * base.
C19_AvgPriceWithinFivePercent ==
    \A u \in DOMAIN USERS :
        \A t \in DOMAIN USERS[u].holdings :
            /\ FLe(FMul(<<19, 20>>, TOKENS[t].price), USERS[u].holdings[t].avg_price)
            /\ FLe(USERS[u].holdings[t].avg_price, FMul(<<21, 20>>, TOKENS[t].price))

\* C20: every account has the fields the menus read (sui_balance, holdings,
\* referral_bonus), and no run of /start or back_to_main raises.
C20_MenuFieldsPresent ==
    /\ \A u \in DOMAIN USERS :
           {"sui_balance", "holdings", "referral_bonus"} \subseteq DOMAIN USERS[u]
    /\ (update.s \in {"/start", "back_to_main"} /\ update.type # "message")
           => raised = "none"

\* C21: a quantity message that comes right after start_sell opened the sell
\* flow, before any "Sell <token>" button of that flow was pressed, changes
\* no account and raises nothing.
C21_NoSellBeforeSelection ==
    [][(/\ update.type = "callback" /\ update.s = "sell"
        /\ reply.text = "select_token_to_sell"
        /\ update'.user = update.user
        /\ IsSellQuantityStep)
       => /\ USERS' = USERS
          /\ raised' = "none"
      ]_vars

\* C22: /start, in whatever conversation state it arrives, leaves the user in
\* SELECTING_ACTION and leaves the sui_balance and the holdings of an account
\* that is there as they were.
C22_StartLeadsToMenu ==
    [][(update'.type = "command" /\ update'.s = "/start")
       => LET u == update'.user IN
          /\ InStateAfter(u, SELECTING_ACTION)
          /\ u \in DOMAIN USERS =>
                 /\ USERS'[u].sui_balance = USERS[u].sui_balance
                 /\ USERS'[u].holdings = USERS[u].holdings
      ]_vars

====
